---- MODULE Spec2Model ----
(***************************************************************************)
(* Model of the account store of src/dynamodb/client.py (DynamoDBManager). *)
(*                                                                         *)
(* The table is a mapping user_id -> item; an item is a mapping            *)
(* attribute name -> value.  Every boto3 call (get_item, put_item, query,  *)
(* update_item, scan) is one atomic step of the backend; a method that     *)
(* makes two backend calls (insert_user, authenticate_user) is two steps   *)
(* of the calling thread, so that other threads can run in between.  The   *)
(* request threads are anonymous: the calls that are between their two     *)
(* backend calls form a bag.                                               *)
(* The email-index is read consistently with the table.                    *)
(* Spec: threads interleave, the update of the login statistics may raise. *)
(* SpecFault: the reads of the backend (query, get_item) may raise too.    *)
(* SpecSeq: one request at a time.                                         *)
(***************************************************************************)
EXTENDS Integers, Sequences, FiniteSets, Bags, TLC

\* ---------------------------------------------------------------- bounds
MaxUsers == 2      \* user ids that exist or are asked for
MaxClock == 3      \* calls of datetime.utcnow() in one behaviour

\* ---------------------------------------------------------------- inputs
Threads == {"t1", "t2"}               \* request threads of the Flask app
Ids == 1..MaxUsers                    \* uuid4 values, in order of use
None == 0                             \* Python None for a timestamp

\* e-mail addresses as sequences of ASCII codes: "a@x", "A@X", "b@x"
EmailLower == <<97, 64, 120>>
EmailUpper == <<65, 64, 88>>
EmailOther == <<98, 64, 120>>
Emails == {EmailLower, EmailUpper, EmailOther}
Usernames == {"alice"}
Passwords == {"pw1", "wrong"}
CreatePasswords == {"pw1"}

\* str.lower() on ASCII text
Lower(s) == [i \in DOMAIN s |-> IF s[i] \in 65..90 THEN s[i] + 32 ELSE s[i]]

\* hash_password: SHA-256 hex digest, injective on the passwords in use
hash_password(password) == <<"sha256", password>>

\* update_data mappings offered to update_user
EmptyData == [k \in {} |-> 0]
UpdateInputs ==
    { EmptyData,
      ("user_id" :> 2) @@ ("password_hash" :> hash_password("wrong"))
                       @@ ("username" :> "z"),
      ("password_hash" :> hash_password("wrong")) @@ ("created_at" :> 0),
      ("active" :> FALSE),
      ("active" :> TRUE),
      ("email" :> EmailUpper),
      ("login_count" :> 0),
      ("first-name" :> "z") }

\* ---------------------------------------------------------------- state
VARIABLES
    table,    \* the DynamoDB table: user_id -> item
    clock,    \* number of datetime.utcnow() calls made so far, plus one
    inflight, \* the calls between their two backend calls, with their locals:
              \*   kind "insert": insert_user after its lookup,
              \*   kind "auth":   authenticate_user after its lookup
    ret,      \* the most recently returned result
    expect    \* history: user_id -> login_count as last written by update_user
              \*          plus the fault-free successful authentications since

vars == <<table, clock, inflight, ret, expect>>

\* ---------------------------------------------------------------- helpers
Pop(item, key) == [f \in DOMAIN item \ {key} |-> item[f]]

\* SET of an update expression: named attributes overwritten or added
SetAttrs(item, data) ==
    [f \in DOMAIN item \cup DOMAIN data |->
        IF f \in DOMAIN data THEN data[f] ELSE item[f]]

\* the locals of a call; peer is history: "pending", "ok", "dup" for an insert
\* that raced another one, else "none"
Locals(kind) == [kind |-> kind, username |-> "", email |-> <<>>, password |-> "",
                 user |-> {}, peer |-> "none"]

Result(op, id, err, users) ==
    [op |-> op, id |-> id, err |-> err, users |-> users,
     fault |-> FALSE, peer |-> "none"]

\* a thread is free to start a call that makes two backend calls
ThreadFree == BagCardinality(inflight) < Cardinality(Threads)

\* the bag B with every call c replaced by f[c]
MapBag(B, f) ==
    LET copies == UNION { { <<c, n>> : n \in 1..B[c] } : c \in DOMAIN B }
    IN  [d \in { f[c] : c \in DOMAIN B } |->
            Cardinality({ cn \in copies : f[cn[1]] = d })]

\* table.query(IndexName='email-index', Key('email').eq(email.lower())):
\* the items whose email attribute equals the lowered argument
QueryEmailIndex(email) ==
    { table[i] : i \in { j \in DOMAIN table :
                           /\ "email" \in DOMAIN table[j]
                           /\ table[j]["email"] = Lower(email) } }

\* get_user_by_email (lines 170-188): the items the query returns; when the
\* backend call raises (`fault`), the except clause returns None, which is
\* what the method returns when there is no item
get_user_by_email(email, fault) == IF fault THEN {} ELSE QueryEmailIndex(email)

\* uuid.uuid4(): an id no item has
NewId == CHOOSE i \in Ids \ DOMAIN table : \A j \in Ids \ DOMAIN table : i <= j

Init ==
    /\ table = [i \in {} |-> 0]
    /\ clock = 1
    /\ inflight = EmptyBag
    /\ ret = Result("none", 0, "", {})
    /\ expect = [i \in Ids |-> 0]

\* ---------------------------------------------------------------- insert_user
\* two inserts whose emails are equal when lowered
SameEmail(c, email) == c.kind = "insert" /\ Lower(c.email) = Lower(email)

\* insert_user up to the return of get_user_by_email (lines 104-112): an
\* existing item ends the call; otherwise the thread goes on to the put.
\* History: two inserts of case-insensitively equal emails that are both past
\* the lookup at the same time are marked as racing each other.
\* `fault`: the query of the lookup raises.
InsertLookup(username, email, password, fault) ==
    /\ ThreadFree
    /\ IF get_user_by_email(email, fault) # {}
       THEN /\ ret' = Result("insert", 0, "Email already exists", {})
            /\ UNCHANGED inflight
       ELSE LET racing == \E c \in BagToSet(inflight) : SameEmail(c, email)
                Mark(c) == IF SameEmail(c, email)
                           THEN [c EXCEPT !.peer = "pending"] ELSE c
                call == [Locals("insert") EXCEPT
                           !.username = username,
                           !.email = email,
                           !.password = password,
                           !.peer = IF racing THEN "pending" ELSE "none"]
            IN  /\ inflight' = MapBag(inflight, [c \in DOMAIN inflight |-> Mark(c)])
                                (+) SetToBag({call})
                /\ UNCHANGED ret
    /\ UNCHANGED <<table, clock, expect>>

\* The item insert_user builds (lines 114-129)
NewUserItem(user_id, username, email, password, timestamp) ==
    [user_id |-> user_id,
     username |-> username,
     email |-> Lower(email),
     password_hash |-> hash_password(password),
     created_at |-> timestamp,
     updated_at |-> timestamp,
     verified |-> FALSE,
     active |-> TRUE,
     login_count |-> 0,
     last_login |-> None,
     profile_data |-> <<>>]

\* ConditionExpression Attr('email').not_exists() of put_item: DynamoDB
\* evaluates a condition against the item that has the key of the item put
PutCondition(item) ==
    \/ item.user_id \notin DOMAIN table
    \/ "email" \notin DOMAIN table[item.user_id]

\* the rest of insert_user (lines 114-144): new id, timestamp, conditional put
InsertPut(call) ==
    /\ call.kind = "insert"
    /\ BagIn(call, inflight)
    /\ clock <= MaxClock
    /\ Ids \ DOMAIN table # {}
    /\ LET item == NewUserItem(NewId, call.username, call.email,
                               call.password, clock)
           ok == PutCondition(item)
           err == IF ok THEN "" ELSE "Email already exists"
           Tell(c) == IF /\ SameEmail(c, call.email)
                         /\ c.peer = "pending"
                         /\ call.peer # "none"
                      THEN [c EXCEPT !.peer = IF ok THEN "ok" ELSE "dup"]
                      ELSE c
       IN  /\ table' = IF ok THEN (item.user_id :> item) @@ table ELSE table
           /\ ret' = [Result("insert", 0, err,
                             IF ok THEN {Pop(item, "password_hash")} ELSE {})
                        EXCEPT !.peer = call.peer]
           /\ LET rest == inflight (-) SetToBag({call})
              IN  inflight' = MapBag(rest, [c \in DOMAIN rest |-> Tell(c)])
    /\ clock' = clock + 1
    /\ UNCHANGED expect

\* ---------------------------------------------------------------- get_user_by_id
\* the item as stored, hash included (never, in the code)
GetUserByIdWithHash(user_id, fault) ==
    /\ ret' = IF user_id \in DOMAIN table /\ ~fault
              THEN Result("get", user_id, "", {table[user_id]})
              ELSE Result("get", user_id, "User not found", {})
    /\ UNCHANGED <<table, clock, inflight, expect>>

\* a get that hides the items whose active flag is false (never, in the code)
GetUserByIdActiveOnly(user_id, fault) ==
    /\ ret' = IF user_id \in DOMAIN table /\ ~fault /\ table[user_id].active
              THEN Result("get", user_id, "", {Pop(table[user_id], "password_hash")})
              ELSE Result("get", user_id, "User not found", {})
    /\ UNCHANGED <<table, clock, inflight, expect>>

\* get_item by key; the hash is removed from the item returned (lines 149-168).
\* `fault`: get_item raises; the except clause returns None (lines 166-168),
\* which the caller reports as "User not found" (lines 423-427)
GetUserById(user_id, fault) ==
    /\ ret' = IF user_id \in DOMAIN table /\ ~fault
              THEN Result("get", user_id, "", {Pop(table[user_id], "password_hash")})
              ELSE Result("get", user_id, "User not found", {})
    /\ UNCHANGED <<table, clock, inflight, expect>>

\* ---------------------------------------------------------------- authenticate_user
\* login_count = :inc instead of login_count + :inc (never, in the code)
WithLoginStatsSetOne(item, count, time) ==
    SetAttrs(item, ("last_login" :> time) @@ ("login_count" :> 1)
                   @@ ("updated_at" :> time))

\* update_item of update_user_login_stats (lines 221-228) applied to an item:
\* SET last_login = :time, login_count = <count>, updated_at = :time
WithLoginStats(item, count, time) ==
    SetAttrs(item, ("last_login" :> time) @@ ("login_count" :> count)
                   @@ ("updated_at" :> time))

\* authenticate_user up to the password check (lines 190-203).  The query
\* returns its matches in no fixed order and the code takes the first.
\* `fault`: the query of the lookup raises.
\* statsFirst: the login statistics are written before the check (never, in
\* the code).
AuthCheck(email, password, fault, statsFirst) ==
    /\ ThreadFree
    /\ LET found == get_user_by_email(email, fault)
       IN  IF found = {}
           THEN /\ ret' = Result("authenticate", 0, "User not found", {})
                /\ UNCHANGED <<inflight, table>>
           ELSE \E user \in found :
                  IF ~user.active
                  THEN /\ ret' = Result("authenticate", user.user_id,
                                        "Account deactivated", {})
                       /\ UNCHANGED <<inflight, table>>
                  ELSE IF user.password_hash # hash_password(password)
                  THEN /\ ret' = Result("authenticate", user.user_id,
                                        "Invalid password", {})
                       /\ table' = IF statsFirst
                                   THEN [table EXCEPT ![user.user_id] =
                                           WithLoginStats(@, @.login_count + 1, clock)]
                                   ELSE table
                       /\ UNCHANGED inflight
                  ELSE /\ inflight' = inflight (+)
                            SetToBag({[Locals("auth") EXCEPT !.user = {user}]})
                       /\ UNCHANGED <<ret, table>>
    /\ UNCHANGED <<clock, expect>>

AuthLookupStatsFirst(email, password, fault) ==
    AuthCheck(email, password, fault, TRUE)

\* a lookup that does not look at the active flag (never, in the code)
AuthLookupNoActiveCheck(email, password, fault) ==
    /\ ThreadFree
    /\ LET found == get_user_by_email(email, fault)
       IN  IF found = {}
           THEN /\ ret' = Result("authenticate", 0, "User not found", {})
                /\ UNCHANGED inflight
           ELSE \E user \in found :
                  IF user.password_hash # hash_password(password)
                  THEN /\ ret' = Result("authenticate", user.user_id,
                                        "Invalid password", {})
                       /\ UNCHANGED inflight
                  ELSE /\ inflight' = inflight (+)
                            SetToBag({[Locals("auth") EXCEPT !.user = {user}]})
                       /\ UNCHANGED ret
    /\ UNCHANGED <<table, clock, expect>>

AuthLookup(email, password, fault) == AuthCheck(email, password, fault, FALSE)

\* the item read by the lookup, held in the local `user`
LocalUser(call) == CHOOSE u \in call.user : TRUE

\* The rest of authenticate_user (lines 205-210): update_user_login_stats,
\* which swallows every exception of update_item (lines 230-231), then the
\* item read by the lookup is returned without its hash.  `fault`: the
\* backend call raises.  `count`: the value the update gives login_count.
AuthFinish(call, fault, count) ==
    /\ call.kind = "auth"
    /\ BagIn(call, inflight)
    /\ clock <= MaxClock
    /\ LET user == LocalUser(call)
           id == user.user_id
           \* login_count + :inc needs an item with a login_count
           raised == \/ fault
                     \/ id \notin DOMAIN table
                     \/ "login_count" \notin DOMAIN table[id]
       IN  /\ table' = IF raised THEN table
                       ELSE [table EXCEPT ![id] = WithLoginStats(@, count, clock)]
           /\ ret' = [Result("authenticate", id, "", {Pop(user, "password_hash")})
                        EXCEPT !.fault = raised]
           /\ expect' = [expect EXCEPT ![id] = IF raised THEN @ ELSE @ + 1]
    /\ clock' = clock + 1
    /\ inflight' = inflight (-) SetToBag({call})

\* login_count of the stored item, read by the backend inside update_item
StoredCount(call) ==
    IF call.user # {} /\ LocalUser(call).user_id \in DOMAIN table
    THEN table[LocalUser(call).user_id].login_count ELSE 0

\* a read-modify-write instead: the count the lookup read, plus one
AuthUpdateStatsFromLocal(call, fault) ==
    AuthFinish(call, fault,
               IF call.user # {} THEN LocalUser(call).login_count + 1 ELSE 0)

AuthUpdateStats(call, fault) == AuthFinish(call, fault, StoredCount(call) + 1)

\* ---------------------------------------------------------------- update_user
ForbiddenFieldsNoHash == {"user_id", "created_at"}

\* forbidden_fields (line 240)
ForbiddenFields == {"user_id", "password_hash", "created_at"}

\* line 241: the mapping without its forbidden keys
Filtered(update_data) ==
    [k \in DOMAIN update_data \ ForbiddenFields |-> update_data[k]]

\* "#key" and ":key" are placeholders of the update expression (lines 256-261);
\* DynamoDB accepts a placeholder made of letters, digits and underscores
PlaceholderOK(key) == key \notin {"first-name"}

UpdateConditionAlways(user_id) == TRUE

\* ConditionExpression Attr('user_id').exists() (line 271)
UpdateCondition(user_id) == user_id \in DOMAIN table

\* an update_user without the check for an empty mapping (never, in the code)
DoUpdateNoEmptyCheck(user_id, update_data) ==
    LET data == Filtered(update_data)
        fields == ("updated_at" :> clock) @@ data
        old == IF user_id \in DOMAIN table THEN table[user_id]
               ELSE [user_id |-> user_id]
        new == SetAttrs(old, fields)
    IN  IF \E k \in DOMAIN fields : ~PlaceholderOK(k)
        THEN [table |-> table, err |-> "ValidationException",
              users |-> {}, timed |-> TRUE]
        ELSE IF ~UpdateCondition(user_id)
        THEN [table |-> table, err |-> "User not found",
              users |-> {}, timed |-> TRUE]
        ELSE [table |-> (user_id :> new) @@ table, err |-> "",
              users |-> {Pop(new, "password_hash")}, timed |-> TRUE]

\* an update_user that rewrites the whole item from its immutable attributes
\* and the supplied fields, as a put would (never, in the code)
DoUpdateReplace(user_id, update_data) ==
    LET data == Filtered(update_data)
        fields == ("updated_at" :> clock) @@ data
        old == IF user_id \in DOMAIN table
               THEN [k \in ForbiddenFields \cap DOMAIN table[user_id] |->
                       table[user_id][k]]
               ELSE [user_id |-> user_id]
        new == SetAttrs(old, fields)
    IN  IF DOMAIN data = {}
        THEN [table |-> table, err |-> "No valid fields to update",
              users |-> {}, timed |-> FALSE]
        ELSE IF \E k \in DOMAIN fields : ~PlaceholderOK(k)
        THEN [table |-> table, err |-> "ValidationException",
              users |-> {}, timed |-> TRUE]
        ELSE IF ~UpdateCondition(user_id)
        THEN [table |-> table, err |-> "User not found",
              users |-> {}, timed |-> TRUE]
        ELSE [table |-> (user_id :> new) @@ table, err |-> "",
              users |-> {Pop(new, "password_hash")}, timed |-> TRUE]

\* update_user (lines 233-282) as a function of the table and the clock: the
\* table after the call, the error message ("" for None), the item returned
\* and whether datetime.utcnow() was called.  update_item writes the item
\* under the key, creating it when there is none.
DoUpdate(user_id, update_data) ==
    LET data == Filtered(update_data)
        fields == ("updated_at" :> clock) @@ data
        old == IF user_id \in DOMAIN table THEN table[user_id]
               ELSE [user_id |-> user_id]
        new == SetAttrs(old, fields)
    IN  IF DOMAIN data = {}
        THEN [table |-> table, err |-> "No valid fields to update",
              users |-> {}, timed |-> FALSE]
        ELSE IF \E k \in DOMAIN fields : ~PlaceholderOK(k)
        THEN [table |-> table, err |-> "ValidationException",
              users |-> {}, timed |-> TRUE]
        ELSE IF ~UpdateCondition(user_id)
        THEN [table |-> table, err |-> "User not found",
              users |-> {}, timed |-> TRUE]
        ELSE [table |-> (user_id :> new) @@ table, err |-> "",
              users |-> {Pop(new, "password_hash")}, timed |-> TRUE]

\* history: an update that writes login_count restarts the expected count
ExpectAfter(user_id, update_data, done) ==
    IF done.err = "" /\ "login_count" \in DOMAIN Filtered(update_data)
    THEN [expect EXCEPT ![user_id] = update_data["login_count"]]
    ELSE expect

UpdateUser(user_id, update_data) ==
    /\ LET done == DoUpdate(user_id, update_data)
       IN  /\ done.timed => clock <= MaxClock
           /\ table' = done.table
           /\ clock' = IF done.timed THEN clock + 1 ELSE clock
           /\ ret' = Result("update", user_id, done.err, done.users)
           /\ expect' = ExpectAfter(user_id, update_data, done)
    /\ UNCHANGED inflight

\* ---------------------------------------------------------------- delete_user
\* a delete that removes the item (never, in the code)
DeleteUserHard(user_id) ==
    /\ clock <= MaxClock
    /\ user_id \in DOMAIN table
    /\ table' = [i \in DOMAIN table \ {user_id} |-> table[i]]
    /\ clock' = clock + 1
    /\ ret' = Result("delete", user_id, "", {})
    /\ UNCHANGED <<inflight, expect>>

\* delete_user (lines 284-296): update_user(user_id, {'active': False});
\* returns (True, None) or (False, error)
DeleteUser(user_id) ==
    /\ LET done == DoUpdate(user_id, ("active" :> FALSE))
       IN  /\ done.timed => clock <= MaxClock
           /\ table' = done.table
           /\ clock' = IF done.timed THEN clock + 1 ELSE clock
           /\ ret' = Result("delete", user_id, done.err, {})
    /\ UNCHANGED <<inflight, expect>>

\* ---------------------------------------------------------------- get_all_users
\* a scan that never filters (never, in the code)
GetAllUsersNoFilter(active_only) ==
    /\ ret' = Result(IF active_only THEN "list_active" ELSE "list_all", 0, "",
                     { Pop(table[i], "password_hash") : i \in DOMAIN table })
    /\ UNCHANGED <<table, clock, inflight, expect>>

\* scan, with FilterExpression Attr('active').eq(True) when active_only;
\* the hash is removed from every item (lines 298-315)
GetAllUsers(active_only) ==
    /\ LET items == { table[i] : i \in
                        { j \in DOMAIN table :
                            \/ ~active_only
                            \/ /\ "active" \in DOMAIN table[j]
                               /\ table[j]["active"] = TRUE } }
       IN  ret' = Result(IF active_only THEN "list_active" ELSE "list_all", 0, "",
                         { Pop(u, "password_hash") : u \in items })
    /\ UNCHANGED <<table, clock, inflight, expect>>

\* ---------------------------------------------------------------- specification
\* the first backend call of a method that makes two
Start ==
    \/ \E username \in Usernames, email \in Emails, password \in CreatePasswords :
          InsertLookup(username, email, password, FALSE)
    \/ \E email \in Emails, password \in Passwords :
          AuthLookup(email, password, FALSE)

\* the second backend call of a call in flight
FinishInsert == \E call \in BagToSet(inflight) : InsertPut(call)

FinishAuth ==
    \E call \in BagToSet(inflight), fault \in BOOLEAN : AuthUpdateStats(call, fault)

\* the methods that make one backend call
Call ==
    \/ \E user_id \in Ids : GetUserById(user_id, FALSE)
    \/ \E user_id \in Ids, update_data \in UpdateInputs :
          UpdateUser(user_id, update_data)
    \/ \E user_id \in Ids : DeleteUser(user_id)
    \/ \E active_only \in BOOLEAN : GetAllUsers(active_only)

\* request threads interleave at every backend call; the reads of the backend
\* (query, get_item) succeed, the update of the login statistics may raise
Next == Start \/ Call \/ FinishInsert \/ FinishAuth

Spec == Init /\ [][Next]_vars

\* a call whose read of the backend raises
FaultedRead ==
    \/ \E username \in Usernames, email \in Emails, password \in CreatePasswords :
          InsertLookup(username, email, password, TRUE)
    \/ \E email \in Emails, password \in Passwords :
          AuthLookup(email, password, TRUE)
    \/ \E user_id \in Ids : GetUserById(user_id, TRUE)

\* the same threads on a backend whose reads may raise as well
NextFault == Next \/ FaultedRead

SpecFault == Init /\ [][NextFault]_vars

\* one request at a time: a call starts only when no other is in flight
Idle == inflight = EmptyBag

NextSeq ==
    \/ \E username \in Usernames, email \in Emails, password \in CreatePasswords :
          Idle /\ InsertLookup(username, email, password, FALSE)
    \/ \E email \in Emails, password \in Passwords :
          Idle /\ AuthLookup(email, password, FALSE)
    \/ \E user_id \in Ids : Idle /\ GetUserById(user_id, FALSE)
    \/ \E user_id \in Ids, update_data \in UpdateInputs :
          Idle /\ UpdateUser(user_id, update_data)
    \/ \E user_id \in Ids : Idle /\ DeleteUser(user_id)
    \/ \E active_only \in BOOLEAN : Idle /\ GetAllUsers(active_only)
    \/ FinishInsert
    \/ FinishAuth

SpecSeq == Init /\ [][NextSeq]_vars

\* ================================================================ claims

\* C1: two insert_user calls with case-insensitively equal emails that run
\* concurrently (both past their lookup at the same time): when the second of
\* them returns, exactly one of the two has succeeded and the other has
\* returned "Email already exists".
C1_ExactlyOneRacingCreateSucceeds ==
    (ret.op = "insert" /\ ret.peer \in {"ok", "dup"}) =>
        \/ ret.err = "" /\ ret.peer = "dup"
        \/ ret.err = "Email already exists" /\ ret.peer = "ok"

\* C2: after any sequence of completed calls, no two stored accounts have the
\* same case-folded email.
C2_UniqueFoldedEmail ==
    \A i \in DOMAIN table, j \in DOMAIN table :
        i # j => Lower(table[i].email) # Lower(table[j].email)

\* C3: a successful authenticate made after N earlier successful
\* authentications of the account returns it with login_count = N + 1 and a
\* last_login that is not None (N + 1 is the expected count: update_user has
\* not written login_count since creation in the runs that refute this).
C3_ReturnedLoginCount ==
    (ret.op = "authenticate" /\ ret.err = "" /\ ~ret.fault) =>
        \A u \in ret.users : /\ u.login_count = expect[u.user_id]
                             /\ u.last_login # None

\* C4: no returned account carries the password_hash attribute.
C4_NoHashInResults ==
    \A u \in ret.users : "password_hash" \notin DOMAIN u

C4_Witness ==
    /\ ret.op \in {"insert", "get", "authenticate", "update", "list_active", "list_all"}
    /\ ret.err = ""
    /\ \E u \in ret.users : "password_hash" \in DOMAIN table[u.user_id]

\* C5: update_user on an existing account leaves user_id, password_hash and
\* created_at as stored; the attributes that differ afterwards are among the
\* supplied keys outside the immutable set, plus updated_at; those supplied
\* keys hold the supplied values; no other account changes.
C5_UpdateFrame ==
    [][\A id \in DOMAIN table, d \in UpdateInputs :
         (ret'.op = "update" /\ ret'.id = id /\ UpdateUser(id, d)) =>
            LET immutable == {"user_id", "password_hash", "created_at"}
                written == (DOMAIN d \ immutable) \cup {"updated_at"}
            IN  /\ DOMAIN table' = DOMAIN table
                /\ \A i \in DOMAIN table \ {id} : table'[i] = table[i]
                /\ DOMAIN table[id] \subseteq DOMAIN table'[id]
                /\ \A k \in DOMAIN table[id] \ written :
                      table'[id][k] = table[id][k]
                /\ \A k \in immutable : table'[id][k] = table[id][k]
                /\ ret'.err = "" =>
                      \A k \in DOMAIN d \ immutable : table'[id][k] = d[k]
      ]_vars

C5_Witness ==
    /\ ret.op = "update" /\ ret.err = ""
    /\ ret.id \in DOMAIN table
    /\ table[ret.id].username = "z"
    /\ table[ret.id].user_id = ret.id
    /\ table[ret.id].password_hash = hash_password("pw1")

\* C6 as stated: an account whose active flag is false is still stored after
\* every step, with the flag false.
C6_InactiveStaysInactive ==
    [][\A id \in DOMAIN table :
         ~table[id].active => (id \in DOMAIN table' /\ ~table'[id].active)
      ]_vars

\* C6 amended: every stored account is still stored after every step, and an
\* inactive account becomes active only by an update_user whose mapping sets
\* active to true.
C6_ReactivatedOnlyByUpdate ==
    [][\A id \in DOMAIN table :
         /\ id \in DOMAIN table'
         /\ (~table[id].active /\ table'[id].active) =>
               UpdateUser(id, ("active" :> TRUE))
      ]_vars

C6_Witness ==
    /\ ret.op = "authenticate" /\ ret.err = "Account deactivated"
    /\ ret.id \in DOMAIN table
    /\ ~table[ret.id].active

\* C7: authenticate does not return the account when the update of the login
\* statistics failed.
C7_NoSuccessWithUnrecordedStats ==
    (ret.op = "authenticate" /\ ret.err = "") => ~ret.fault

\* C8: the stored login_count of every account is the value it had when
\* update_user last wrote it (0 at creation) plus the number of successful
\* authenticate calls completed since without a backend fault, in every
\* interleaving.
C8_NoLostIncrements ==
    \A id \in DOMAIN table : table[id].login_count = expect[id]

\* a second authenticate is past its lookup, holding the count it read, while
\* the first has already incremented the stored count
C8_Witness ==
    \E call \in BagToSet(inflight) :
        /\ call.kind = "auth"
        /\ LocalUser(call).user_id \in DOMAIN table
        /\ LocalUser(call).login_count = 0
        /\ table[LocalUser(call).user_id].login_count = 1
        /\ ret.op = "authenticate" /\ ret.err = "" /\ ~ret.fault
        /\ ret.id = LocalUser(call).user_id

\* C9: an authenticate that ends with "Invalid password" leaves login_count
\* and last_login of every stored account as they were.
C9_WrongPasswordFrame ==
    [][\A email \in Emails, password \in Passwords :
         (ret'.err = "Invalid password" /\ inflight' = inflight
            /\ AuthLookup(email, password, FALSE)) =>
            /\ DOMAIN table' = DOMAIN table
            /\ \A id \in DOMAIN table :
                  /\ table'[id].login_count = table[id].login_count
                  /\ table'[id].last_login = table[id].last_login
      ]_vars

C9_Witness ==
    /\ ret.op = "authenticate" /\ ret.err = "Invalid password"
    /\ ret.id \in DOMAIN table
    /\ table[ret.id].login_count = 1
    /\ table[ret.id].last_login # None

\* C10 as stated: update_user on an id without a record returns
\* "User not found" and leaves the table as it was.
C10_MissingIdNotFound ==
    [][\A id \in Ids \ DOMAIN table, d \in UpdateInputs :
         (ret'.op = "update" /\ ret'.id = id /\ UpdateUser(id, d)) =>
            (ret'.err = "User not found" /\ table' = table)
      ]_vars

\* C10 amended: update_user on an id without a record leaves the table as it
\* was, and returns "User not found" when the mapping keeps a field after the
\* immutable keys are dropped and every kept name is a valid placeholder.
C10_MissingIdNoWrite ==
    [][\A id \in Ids \ DOMAIN table, d \in UpdateInputs :
         (ret'.op = "update" /\ ret'.id = id /\ UpdateUser(id, d)) =>
            LET kept == DOMAIN d \ {"user_id", "password_hash", "created_at"}
            IN  /\ table' = table
                /\ (kept # {} /\ \A k \in kept : PlaceholderOK(k)) =>
                      ret'.err = "User not found"
                /\ ret'.err # ""
      ]_vars

C10_Witness ==
    /\ ret.op = "update" /\ ret.err = "User not found"
    /\ ret.id \notin DOMAIN table
    /\ DOMAIN table # {}

\* C11: an account that is stored stays stored under its id after every step,
\* and a get_user_by_id of a stored id whose get_item does not raise returns
\* the record stored under that id, without its hash, whatever the active
\* flag of the record is.
C11_GetReturnsStoredRecord ==
    [][\A id \in DOMAIN table :
         /\ id \in DOMAIN table'
         /\ table'[id].user_id = id
         /\ (ret'.op = "get" /\ ret'.id = id /\ GetUserById(id, FALSE)) =>
               /\ ret'.err = ""
               /\ ret'.users = {Pop(table'[id], "password_hash")}
      ]_vars

\* a get after a soft delete has returned the record, with active false
C11_Witness ==
    /\ ret.op = "get" /\ ret.err = ""
    /\ ret.id \in DOMAIN table
    /\ \E u \in ret.users : u.user_id = ret.id /\ ~u.active

\* C12: get_all_users(active_only = True) returns the stored accounts whose
\* active flag is true and no other; get_all_users(active_only = False)
\* returns every stored account; each account is returned as stored, without
\* its hash.
C12_ListReturnsExactly ==
    /\ ret.op \in {"list_active", "list_all"} =>
          /\ ret.err = ""
          /\ \A u \in ret.users :
                /\ u.user_id \in DOMAIN table
                /\ u = Pop(table[u.user_id], "password_hash")
    /\ ret.op = "list_active" =>
          \A id \in DOMAIN table :
             table[id].active <=> (\E u \in ret.users : u.user_id = id)
    /\ ret.op = "list_all" =>
          \A id \in DOMAIN table : \E u \in ret.users : u.user_id = id

\* a list of the active accounts has left out an inactive one
C12_Witness ==
    /\ ret.op = "list_active"
    /\ ret.users # {}
    /\ \E id \in DOMAIN table : ~table[id].active

\* C13: while an account is stored with its active flag false, every
\* authenticate_user for that account's email, in any letter case and with
\* the right or a wrong password, returns "Account deactivated" and no
\* account.
C13_InactiveAlwaysDeactivated ==
    [][\A email \in Emails, password \in Passwords :
         (/\ \E id \in DOMAIN table :
                ~table[id].active /\ Lower(table[id].email) = Lower(email)
          /\ AuthLookup(email, password, FALSE)) =>
            /\ inflight' = inflight
            /\ ret'.op = "authenticate"
            /\ ret'.err = "Account deactivated"
            /\ ret'.users = {}
      ]_vars

\* C14: a call whose read of the backend raises ends with an error that is
\* not "User not found": get_user_by_id of a stored id does not report the
\* record as missing, authenticate_user of a stored email does not report the
\* account as missing, and insert_user of a stored email does not go on to
\* its put as if the email were free.
C14_FaultedReadReported ==
    [][/\ \A id \in DOMAIN table :
            GetUserById(id, TRUE) => ret'.err \notin {"", "User not found"}
       /\ \A email \in Emails, password \in Passwords :
            (QueryEmailIndex(email) # {} /\ AuthLookup(email, password, TRUE)) =>
               /\ inflight' = inflight
               /\ ret'.err \notin {"", "User not found"}
       /\ \A username \in Usernames, email \in Emails,
             password \in CreatePasswords :
            (QueryEmailIndex(email) # {}
               /\ InsertLookup(username, email, password, TRUE)) =>
               /\ inflight' = inflight
               /\ ret'.op = "insert"
               /\ ret'.err \notin {"", "User not found"}
      ]_vars

\* C15: after any sequence of insert_user and update_user calls, the email of
\* every stored account is in lowercase.
C15_StoredEmailLowercase ==
    \A id \in DOMAIN table : table[id].email = Lower(table[id].email)

\* C16: update_user with a mapping that is empty or has only immutable keys
\* returns "No valid fields to update" and no account, for an id that has a
\* record and for one that has none; the table is left as it was, updated_at
\* included, and no timestamp is taken.
C16_NoValidFieldsNoWrite ==
    [][\A id \in Ids, d \in UpdateInputs :
         (/\ DOMAIN d \subseteq {"user_id", "password_hash", "created_at"}
          /\ ret'.op = "update" /\ ret'.id = id
          /\ UpdateUser(id, d)) =>
            /\ ret'.err = "No valid fields to update"
            /\ ret'.users = {}
            /\ table' = table
            /\ clock' = clock
      ]_vars

\* the call was made on a stored account, whose updated_at is still the time
\* of its creation
C16_Witness ==
    /\ ret.op = "update" /\ ret.err = "No valid fields to update"
    /\ ret.id \in DOMAIN table
    /\ table[ret.id].updated_at = table[ret.id].created_at

\* C17: update_user makes one update_item call, so the updates of concurrent
\* calls are applied one after the other.  When an update of an account that
\* wrote the mapping d1 is followed by an update of the same account with the
\* mapping d2, then afterwards a field named by d1 only holds the value of
\* d1, a field named by d2 holds the value of d2, and a field named by
\* neither is as it was before, updated_at excepted.
C17_LastWriterWins ==
    [][(/\ ret.op = "update" /\ ret.err = ""
        /\ ret'.op = "update" /\ ret'.err = ""
        /\ ret'.id = ret.id) =>
         \A d1 \in UpdateInputs, d2 \in UpdateInputs :
            LET id == ret.id
                immutable == {"user_id", "password_hash", "created_at"}
                K1 == DOMAIN d1 \ immutable
                K2 == DOMAIN d2 \ immutable
            IN  (/\ K1 # {} /\ K1 \subseteq DOMAIN table[id]
                 /\ \A k \in K1 : table[id][k] = d1[k]
                 /\ UpdateUser(id, d2)) =>
                   /\ DOMAIN table[id] \subseteq DOMAIN table'[id]
                   /\ \A k \in K1 \ K2 : table'[id][k] = d1[k]
                   /\ \A k \in K2 : table'[id][k] = d2[k]
                   /\ \A k \in DOMAIN table[id] \ (K2 \cup {"updated_at"}) :
                         table'[id][k] = table[id][k]
      ]_vars

\* two updates of one account have been applied: the username written by the
\* first and the active flag written by the second are both stored
C17_Witness ==
    /\ ret.op = "update" /\ ret.err = ""
    /\ ret.id \in DOMAIN table
    /\ table[ret.id].username = "z"
    /\ ~table[ret.id].active
    /\ \E u \in ret.users : ~u.active /\ u.username = "z"

\* C18: update_user on a stored account with a mapping that keeps a field
\* after the immutable keys are dropped succeeds and stores every kept field
\* under its name, whatever characters the name is made of.
C18_AnyFieldNameAccepted ==
    [][\A id \in DOMAIN table, d \in UpdateInputs :
         LET kept == DOMAIN d \ {"user_id", "password_hash", "created_at"}
         IN  (/\ kept # {}
              /\ ret'.op = "update" /\ ret'.id = id
              /\ UpdateUser(id, d)) =>
                /\ ret'.err = ""
                /\ \A k \in kept : /\ k \in DOMAIN table'[id]
                                   /\ table'[id][k] = d[k]
      ]_vars

\* C19 as stated: the login statistics update of an authenticate_user call
\* leaves login_count and last_login of an account as they are when the
\* active flag of the account is false at the time of the update.
C19_NoStatsWriteOnInactive ==
    [][\A call \in BagToSet(inflight), fault \in BOOLEAN :
         (/\ call.kind = "auth"
          /\ LocalUser(call).user_id \in DOMAIN table
          /\ ~table[LocalUser(call).user_id].active
          /\ ret'.op = "authenticate"
          /\ AuthUpdateStats(call, fault)) =>
            LET id == LocalUser(call).user_id
            IN  /\ table'[id].login_count = table[id].login_count
                /\ table'[id].last_login = table[id].last_login
      ]_vars

\* C19 amended: login_count or last_login of an account whose active flag is
\* false changes only by the login statistics update of an authenticate_user
\* call whose lookup read the account with the flag true, or by an
\* update_user whose mapping names the field.
C19_StatsWriteOnlyAfterActiveRead ==
    [][\A id \in DOMAIN table :
         (/\ ~table[id].active
          /\ id \in DOMAIN table'
          /\ \/ table'[id].login_count # table[id].login_count
             \/ table'[id].last_login # table[id].last_login) =>
            \/ \E call \in BagToSet(inflight) :
                  /\ call.kind = "auth"
                  /\ LocalUser(call).user_id = id
                  /\ LocalUser(call).active
                  /\ AuthUpdateStats(call, FALSE)
            \/ \E d \in UpdateInputs :
                  /\ {"login_count", "last_login"} \cap DOMAIN d # {}
                  /\ UpdateUser(id, d)
      ]_vars

\* an authenticate_user call has returned the account after writing the login
\* statistics of an account that a delete_user had made inactive before
C19_Witness ==
    /\ ret.op = "authenticate" /\ ret.err = "" /\ ~ret.fault
    /\ ret.id \in DOMAIN table
    /\ ~table[ret.id].active
    /\ table[ret.id].last_login # None
    /\ table[ret.id].last_login = table[ret.id].updated_at

\* C20 as stated: the stored login_count of an account is never negative and
\* a step leaves it as it is or adds one to it.
C20_CountNeverDecreases ==
    [][\A id \in DOMAIN table :
         /\ id \in DOMAIN table'
         /\ table[id].login_count >= 0
         /\ table'[id].login_count \in
               {table[id].login_count, table[id].login_count + 1}
      ]_vars

\* C20 amended: an account is created with login_count 0; the login
\* statistics update of an authenticate_user call that does not raise adds
\* exactly one to the stored login_count; every other change of login_count
\* is made by an update_user whose mapping names login_count, and stores the
\* value of the mapping.
C20_CountChangedByLoginOrUpdate ==
    [][/\ \A id \in DOMAIN table' \ DOMAIN table : table'[id].login_count = 0
       /\ \A call \in BagToSet(inflight) :
            (/\ call.kind = "auth"
             /\ LocalUser(call).user_id \in DOMAIN table
             /\ ret'.op = "authenticate"
             /\ AuthUpdateStats(call, FALSE)) =>
               table'[LocalUser(call).user_id].login_count =
                  table[LocalUser(call).user_id].login_count + 1
       /\ \A id \in DOMAIN table :
            /\ id \in DOMAIN table'
            /\ table'[id].login_count # table[id].login_count =>
                  \/ \E call \in BagToSet(inflight) :
                        /\ call.kind = "auth"
                        /\ LocalUser(call).user_id = id
                        /\ AuthUpdateStats(call, FALSE)
                  \/ \E d \in UpdateInputs :
                        /\ "login_count" \in DOMAIN d
                        /\ table'[id].login_count = d["login_count"]
                        /\ UpdateUser(id, d)
      ]_vars

\* two successful authentications of an account have been counted
C20_Witness ==
    /\ ret.op = "authenticate" /\ ret.err = "" /\ ~ret.fault
    /\ ret.id \in DOMAIN table
    /\ table[ret.id].login_count = 2

====
